---- MODULE Spec2Model ----
(***************************************************************************)
(* Model of the emotion inference service: EmotionDetector                 *)
(* (src/emonet/src/emotion_detector.py) and the FastAPI boundary that      *)
(* drives it (src/emonet/src/server.py).                                   *)
(*                                                                         *)
(* Python's None is the empty sequence <<>> and a present value x is <<x>>.*)
(* An image is its shape <<height, width>>; pixel values play no part in   *)
(* any branch of the code.  A probability is the pair <<num, den>>.        *)
(***************************************************************************)
EXTENDS Integers, Sequences, FiniteSets, TLC

VARIABLES
    gpuQuery,        \* what nvidia-smi answers: [failed, rows]
    weightsPresent,  \* pretrained/emonet_{n}.pth exists
    detector,        \* the EmotionDetector object: <<>> or <<[n_classes, image_size, device, attrs]>>
    appHasDetector,  \* hasattr(app.state, "detector")
    life,            \* position of the lifespan coroutine
    task,            \* per caller: position and locals of the handler / predict call
    loop,            \* the coroutine the event loop is running, or "none"
    cleanups,        \* number of cleanup() calls made on the detector
    cleanupErr,      \* exception type of the last cleanup() call, or "none"
    cacheCleared     \* torch.cuda.empty_cache() has been requested

vars == <<gpuQuery, weightsPresent, detector, appHasDetector, life, task, loop,
          cleanups, cleanupErr, cacheCleared>>

(***************************************************************************)
(* Bounds of the model.                                                    *)
(***************************************************************************)
MaxGpus == 3       \* rows in the device query's answer
MaxMem == 2        \* memory.total of a row is 1..MaxMem, memory.used 0..total
MaxDim == 2        \* image height and width are 1..MaxDim
MaxCleanups == 3   \* cleanup() calls on one detector

(***************************************************************************)
(* Program constants.                                                      *)
(***************************************************************************)
ImageSize == 256
ServerNClasses == 8

emotion_classes ==
    [i \in 0..7 |->
        CASE i = 0 -> "Neutral"
          [] i = 1 -> "Happy"
          [] i = 2 -> "Sad"
          [] i = 3 -> "Surprise"
          [] i = 4 -> "Fear"
          [] i = 5 -> "Disgust"
          [] i = 6 -> "Anger"
          [] i = 7 -> "Contempt"]

None == <<>>
Some(x) == <<x>>

Max(a, b) == IF a >= b THEN a ELSE b
Min(a, b) == IF a <= b THEN a ELSE b

(***************************************************************************)
(* Device selection.                                                       *)
(***************************************************************************)

\* One line of the query's answer.  kind "ok": three integer fields;
\* "short": not three fields (skipped); "bad": three fields, one of them not
\* an integer (int() raises).
GpuLines ==
    { [kind |-> "ok", used |-> u, total |-> t] : t \in 1..MaxMem, u \in 0..MaxMem }
    \cup { [kind |-> k, used |-> 0, total |-> 0] : k \in {"short", "bad"} }

GpuRow(i, r) == [kind |-> r.kind, index |-> i - 1, used |-> r.used, total |-> r.total]

\* Every answer of the query: it fails, or it lists up to MaxGpus lines, the
\* devices numbered in enumeration order.
AllGpuQueries ==
    { [failed |-> f, rows |-> [i \in DOMAIN rs |-> GpuRow(i, rs[i])]] :
        f \in BOOLEAN, rs \in UNION { [1..m -> { r \in GpuLines : r.used <= r.total }] : m \in 0..MaxGpus } }

RECURSIVE ParseRows(_, _)
\* The for-loop of _get_gpu_memory_usage over the remaining rows, acc the
\* gpu_info list so far.  raised: int() raised inside the loop.
ParseRows(rows, acc) ==
    IF rows = <<>> THEN [raised |-> FALSE, info |-> acc]
    ELSE LET r == Head(rows) IN
         IF r.kind = "short" THEN ParseRows(Tail(rows), acc)
         ELSE IF r.kind = "bad" THEN [raised |-> TRUE, info |-> acc]
         ELSE ParseRows(Tail(rows),
                        Append(acc, [index |-> r.index, used |-> r.used,
                                     total |-> r.total, free |-> r.total - r.used]))

_get_gpu_memory_usage(q) ==
    IF q.failed THEN <<>>
    ELSE LET p == ParseRows(q.rows, <<>>) IN
         IF p.raised THEN <<>> ELSE p.info

RECURSIVE InsertBeforeEqual(_, _)
\* InsertDesc with the comparison made strict: of two devices with equal free
\* memory the later one comes first
InsertBeforeEqual(x, s) ==
    IF s = <<>> THEN <<x>>
    ELSE IF Head(s).free > x.free THEN <<Head(s)>> \o InsertBeforeEqual(x, Tail(s))
    ELSE <<x>> \o s

RECURSIVE InsertDesc(_, _)
\* x placed behind every element whose free is >= x.free: a stable descending order
InsertDesc(x, s) ==
    IF s = <<>> THEN <<x>>
    ELSE IF Head(s).free >= x.free THEN <<Head(s)>> \o InsertDesc(x, Tail(s))
    ELSE <<x>> \o s

RECURSIVE SortFreeDescending(_)
\* gpu_info.sort(key=free, reverse=True): stable, equal keys keep their order
SortFreeDescending(info) ==
    IF info = <<>> THEN <<>>
    ELSE InsertDesc(info[Len(info)], SortFreeDescending(SubSeq(info, 1, Len(info) - 1)))

_select_best_gpu(q) ==
    LET gpu_info == _get_gpu_memory_usage(q) IN
    IF gpu_info = <<>> THEN [type |-> "cpu", index |-> -1]
    ELSE [type |-> "cuda", index |-> SortFreeDescending(gpu_info)[1].index]

(***************************************************************************)
(* The detector object: construction and cleanup.                          *)
(***************************************************************************)

\* EmotionDetector.__init__ when the weights file exists.  n_classes,
\* image_size and device are never deleted; attrs holds the attributes that
\* cleanup deletes.
NewDetector(n, q) ==
    [n_classes |-> n, image_size |-> ImageSize, device |-> _select_best_gpu(q),
     attrs |-> {"model", "face_detector"}]

\* del self.<name> with no hasattr test before it: AttributeError when absent
DelUnguarded(st, name) ==
    IF st.err # "none" THEN st
    ELSE IF name \in st.attrs THEN [st EXCEPT !.attrs = @ \ {name}]
    ELSE [st EXCEPT !.err = "AttributeError"]

\* if hasattr(self, name): del self.<name>
DelIfPresent(st, name) ==
    IF st.err # "none" THEN st
    ELSE IF name \in st.attrs THEN [st EXCEPT !.attrs = @ \ {name}]
    ELSE st

\* EmotionDetector.cleanup on detector d: the attributes left, the exception
\* type it ends with ("none": it returns) and whether empty_cache was called
cleanup(d) ==
    LET s1 == DelIfPresent([attrs |-> d.attrs, err |-> "none"], "model")
        s2 == DelIfPresent(s1, "face_detector")
    IN  [attrs |-> s2.attrs, err |-> s2.err,
         emptied |-> s2.err = "none" /\ d.device.type = "cuda"]

(***************************************************************************)
(* predict: the pure steps.                                                *)
(***************************************************************************)

\* len(range(n)[lo:hi]): Python's slice, a negative bound counted from the end
SliceLen(lo, hi, n) ==
    LET a == IF lo < 0 THEN Max(lo + n, 0) ELSE Min(lo, n)
        b == IF hi < 0 THEN Max(hi + n, 0) ELSE Min(hi, n)
    IN  Max(b - a, 0)

\* bbox[0..3] after the four clamping assignments; image is <<height, width>>.
\* The localizer's box is a tuple of integers, which astype(np.int32) leaves
\* as they are.
ClampBox(box, image) ==
    << Max(0, box[1]), Max(0, box[2]), Min(image[2], box[3]), Min(image[1], box[4]) >>

\* face_crop.shape[:2] for image[bbox[1]:bbox[3], bbox[0]:bbox[2], :]
CropShape(bbox, image) ==
    << SliceLen(bbox[2], bbox[4], image[1]), SliceLen(bbox[1], bbox[3], image[2]) >>

\* face_crop.size == 0 tested on the width alone
CropIsEmptyWidthOnly(shape) == shape[2] * 3 = 0

\* face_crop.size == 0
CropIsEmpty(shape) == shape[1] * shape[2] * 3 = 0

\* the no-face dict with the flag left set and a box filled in
NoFaceResultWithBox ==
    [emotion |-> None, emotion_class |-> None, valence |-> None, arousal |-> None,
     emotion_probabilities |-> None, face_detected |-> TRUE,
     message |-> "No face detected in image", face_bbox |-> Some(<<0, 0, 0, 0>>)]

NoFaceResult ==
    [emotion |-> None, emotion_class |-> None, valence |-> None, arousal |-> None,
     emotion_probabilities |-> None, face_detected |-> FALSE,
     message |-> "No face detected in image"]

InvalidCropResult ==
    [emotion |-> None, emotion_class |-> None, valence |-> None, arousal |-> None,
     emotion_probabilities |-> None, face_detected |-> FALSE,
     message |-> "Invalid face crop"]

RECURSIVE Pow2(_)
Pow2(l) == IF l <= 0 THEN 1 ELSE 2 * Pow2(l - 1)

RECURSIVE SumPow2(_)
SumPow2(logits) == IF logits = <<>> THEN 0 ELSE Pow2(Head(logits)) + SumPow2(Tail(logits))

\* softmax over dim 1: entry i is weight(i) / sum of the weights, the weight
\* growing with the logit (base 2 here, for integer arithmetic)
Softmax(logits) == [i \in 1..Len(logits) |-> << Pow2(logits[i]), SumPow2(logits) >>]

\* torch.argmax of the flattened [1, K] tensor: the 0-based index of the first
\* maximal entry
ArgMax(probs) ==
    (CHOOSE i \in 1..Len(probs) :
        /\ \A j \in 1..Len(probs) : probs[j][1] <= probs[i][1]
        /\ \A j \in 1..(i - 1) : probs[j][1] < probs[i][1]) - 1

\* tensor.clamp(-1.0, 1.0)
Clamp1(x) == Max(-1, Min(1, x))

\* { emotion_classes[i]: float(emotion_probs[0, i]) for i in range(n_classes) }
ProbsDict(probs, n) ==
    [l \in { emotion_classes[i] : i \in 0..(n - 1) } |->
        probs[(CHOOSE i \in 0..(n - 1) : emotion_classes[i] = l) + 1]]

\* Lines 228-249 on the model's output: the exception the block raises, or
\* the Prediction dict it returns.
Normalize(output, n, bbox) ==
    LET emotion_probs == Softmax(output.expression)
        predicted_class == ArgMax(emotion_probs)
    IN  IF n > Len(emotion_probs)
        THEN [raised |-> TRUE, exc |-> [type |-> "IndexError", text |-> "index out of bounds"]]
        ELSE IF n > 8 \/ predicted_class \notin DOMAIN emotion_classes
        THEN [raised |-> TRUE, exc |-> [type |-> "KeyError", text |-> "emotion_classes"]]
        ELSE [raised |-> FALSE,
              result |->
                [emotion |-> Some(emotion_classes[predicted_class]),
                 emotion_class |-> Some(predicted_class),
                 valence |-> Some(Clamp1(output.valence)),
                 arousal |-> Some(Clamp1(output.arousal)),
                 emotion_probabilities |-> Some(ProbsDict(emotion_probs, n)),
                 face_detected |-> TRUE,
                 face_bbox |-> Some(bbox)]]

(***************************************************************************)
(* Callers.  "file" and "b64" are the two request handlers of server.py,   *)
(* "direct" is a program that uses an EmotionDetector itself.              *)
(***************************************************************************)

IdleTask ==
    [pc |-> "idle", req |-> None, image |-> None, detected_faces |-> None,
     bbox |-> None, crop |-> None, tensor |-> None, output |-> None,
     result |-> None, exc |-> None, stages |-> <<>>, forwards |-> 0,
     response |-> None]

\* What the external collaborators (OpenCV, the localizer, the network) may raise
CollabErrors ==
    { [type |-> "ValueError", text |-> "collaborator detail"],
      [type |-> "RuntimeError", text |-> "collaborator detail"] }

\* isinstance(e, ValueError)
IsValueError(exc) == exc.type \in {"ValueError", "UnicodeDecodeError"}

\* Suspended with one more await, made between localization and the crop (as
\* if predict were awaited stage by stage)
SuspendedInPredict(pc) == pc \in {"idle", "reading", "done", "localized"}

\* The positions at which a caller is not running: before its call, after it,
\* and at the one await of the handlers (await file.read()).  predict is called
\* without await, so no position inside it is among them.
Suspended(pc) == pc \in {"idle", "reading", "done"}

Runnable(t) == IF Suspended(task[t].pc) THEN loop = "none" ELSE loop = t

Step(t, rec) ==
    /\ task' = [task EXCEPT ![t] = rec]
    /\ loop' = IF Suspended(rec.pc) THEN "none" ELSE t

Raise(rec, e) == [rec EXCEPT !.pc = "raised", !.exc = Some(e)]

Det == detector[1]

(***************************************************************************)
(* predict, one action per stage of lines 175-249.                         *)
(***************************************************************************)

\* Lines 177-180: cvtColor, then self.face_detector.detect_from_image
PredictLocalize(t, faceLists) ==
    /\ task[t].pc = "predict"
    /\ Runnable(t)
    /\ LET me == [task[t] EXCEPT !.stages = Append(@, "LOCALIZE")] IN
       \/ \E e \in CollabErrors : Step(t, Raise(me, e))
       \/ /\ "face_detector" \notin Det.attrs
          /\ Step(t, Raise(me, [type |-> "AttributeError", text |-> "face_detector"]))
       \/ /\ "face_detector" \in Det.attrs
          /\ \E faces \in faceLists :
                Step(t, [me EXCEPT !.pc = "localized", !.detected_faces = Some(faces)])
    /\ UNCHANGED <<gpuQuery, weightsPresent, detector, appHasDetector, life,
                   cleanups, cleanupErr, cacheCleared>>

\* The no-face branch signalled by an exception instead of a return value
PredictNoFaceRaises(t) ==
    /\ task[t].pc = "localized"
    /\ Runnable(t)
    /\ Len(task[t].detected_faces[1]) = 0
    /\ Step(t, Raise(task[t], [type |-> "ValueError", text |-> "No face detected in image"]))
    /\ UNCHANGED <<gpuQuery, weightsPresent, detector, appHasDetector, life,
                   cleanups, cleanupErr, cacheCleared>>

\* Lines 183-193: len(detected_faces) == 0
PredictNoFace(t) ==
    /\ task[t].pc = "localized"
    /\ Runnable(t)
    /\ Len(task[t].detected_faces[1]) = 0
    /\ Step(t, [task[t] EXCEPT !.pc = "returned", !.result = Some(NoFaceResult)])
    /\ UNCHANGED <<gpuQuery, weightsPresent, detector, appHasDetector, life,
                   cleanups, cleanupErr, cacheCleared>>

\* Lines 195-218: element 0, the clamp, the crop and the test of its size
PredictClampAndCrop(t) ==
    /\ task[t].pc = "localized"
    /\ Runnable(t)
    /\ Len(task[t].detected_faces[1]) # 0
    /\ LET image == task[t].image[1]
           bbox == ClampBox(task[t].detected_faces[1][1], image)
           face_crop == CropShape(bbox, image)
           me == [task[t] EXCEPT !.stages = Append(@, "CLAMP_AND_CROP"),
                                 !.bbox = Some(bbox), !.crop = Some(face_crop)]
       IN  \/ /\ CropIsEmpty(face_crop)
              /\ Step(t, [me EXCEPT !.pc = "returned", !.result = Some(InvalidCropResult)])
           \/ /\ ~CropIsEmpty(face_crop)
              /\ Step(t, [me EXCEPT !.pc = "cropped"])
    /\ UNCHANGED <<gpuQuery, weightsPresent, detector, appHasDetector, life,
                   cleanups, cleanupErr, cacheCleared>>

\* Line 221, preprocess_image (lines 137-162): the tensor's shape
PredictPreprocess(t) ==
    /\ task[t].pc = "cropped"
    /\ Runnable(t)
    /\ LET me == [task[t] EXCEPT !.stages = Append(@, "PREPROCESS")] IN
       \/ \E e \in CollabErrors : Step(t, Raise(me, e))
       \/ Step(t, [me EXCEPT !.pc = "preprocessed",
                             !.tensor = Some(<<1, 3, Det.image_size, Det.image_size>>)])
    /\ UNCHANGED <<gpuQuery, weightsPresent, detector, appHasDetector, life,
                   cleanups, cleanupErr, cacheCleared>>

\* Line 225: output = self.model(image_tensor)
PredictInfer(t, outputs) ==
    /\ task[t].pc = "preprocessed"
    /\ Runnable(t)
    /\ LET me == [task[t] EXCEPT !.stages = Append(@, "INFER")] IN
       \/ /\ "model" \notin Det.attrs
          /\ Step(t, Raise(me, [type |-> "AttributeError", text |-> "model"]))
       \/ /\ "model" \in Det.attrs
          /\ \E e \in CollabErrors :
                Step(t, Raise([me EXCEPT !.forwards = @ + 1], e))
       \/ /\ "model" \in Det.attrs
          /\ \E out \in outputs :
                Step(t, [me EXCEPT !.pc = "inferred", !.forwards = @ + 1,
                                   !.output = Some(out)])
    /\ UNCHANGED <<gpuQuery, weightsPresent, detector, appHasDetector, life,
                   cleanups, cleanupErr, cacheCleared>>

\* Lines 228-249
PredictNormalize(t) ==
    /\ task[t].pc = "inferred"
    /\ Runnable(t)
    /\ LET me == [task[t] EXCEPT !.stages = Append(@, "NORMALIZE")]
           r == Normalize(task[t].output[1], Det.n_classes, task[t].bbox[1])
       IN  \/ /\ r.raised
              /\ Step(t, Raise(me, r.exc))
           \/ /\ ~r.raised
              /\ Step(t, [me EXCEPT !.pc = "returned", !.result = Some(r.result)])
    /\ UNCHANGED <<gpuQuery, weightsPresent, detector, appHasDetector, life,
                   cleanups, cleanupErr, cacheCleared>>

(***************************************************************************)
(* A program that owns an EmotionDetector and calls it, one call at a time.*)
(***************************************************************************)

\* EmotionDetector(n_classes=n): _select_best_gpu, _load_model (which raises
\* FileNotFoundError when the weights are absent), _load_face_detector
DirectConstruct ==
    /\ detector = None
    /\ task["direct"].pc \in {"idle", "done"}
    /\ Runnable("direct")
    /\ \/ /\ weightsPresent
          /\ \E n \in {5, 8} : detector' = Some(NewDetector(n, gpuQuery))
          /\ Step("direct", IdleTask)
       \/ /\ ~weightsPresent
          /\ detector' = detector
          /\ Step("direct", [IdleTask EXCEPT !.pc = "done",
                 !.exc = Some([type |-> "FileNotFoundError", text |-> "Model weights not found"])])
    /\ UNCHANGED <<gpuQuery, weightsPresent, appHasDetector, life,
                   cleanups, cleanupErr, cacheCleared>>

\* detector.predict(image) is entered
DirectCall(images) ==
    /\ detector # None
    /\ task["direct"].pc \in {"idle", "done"}
    /\ Runnable("direct")
    /\ \E image \in images :
          Step("direct", [IdleTask EXCEPT !.pc = "predict", !.image = Some(image)])
    /\ UNCHANGED <<gpuQuery, weightsPresent, detector, appHasDetector, life,
                   cleanups, cleanupErr, cacheCleared>>

\* predict has returned or raised: the caller takes the outcome and the call's
\* locals are gone
DirectReturn ==
    /\ task["direct"].pc \in {"returned", "raised"}
    /\ Runnable("direct")
    /\ Step("direct", IdleTask)
    /\ UNCHANGED <<gpuQuery, weightsPresent, detector, appHasDetector, life,
                   cleanups, cleanupErr, cacheCleared>>

\* The effect of one cleanup() call on the shared state (lines 251-258)
DoCleanup ==
    LET c == cleanup(Det) IN
    /\ detector' = Some([Det EXCEPT !.attrs = c.attrs])
    /\ cleanupErr' = c.err
    /\ cacheCleared' = (cacheCleared \/ c.emptied)
    /\ cleanups' = cleanups + 1

\* detector.cleanup(), between two calls
DirectCleanup ==
    /\ detector # None
    /\ task["direct"].pc \in {"idle", "done"}
    /\ Runnable("direct")
    /\ cleanups < MaxCleanups
    /\ DoCleanup
    /\ UNCHANGED <<gpuQuery, weightsPresent, appHasDetector, life, task, loop>>

(***************************************************************************)
(* server.py: the lifespan and the two detection handlers.                 *)
(***************************************************************************)

\* Lines 44-58: the detector is built and stored; a failure is logged and
\* raised again, the finally block finding no detector to clean up
LifespanStartup ==
    /\ life = "init"
    /\ loop = "none"
    /\ \/ /\ weightsPresent
          /\ detector' = Some(NewDetector(ServerNClasses, gpuQuery))
          /\ appHasDetector' = TRUE
          /\ life' = "running"
       \/ /\ ~weightsPresent
          /\ UNCHANGED <<detector, appHasDetector>>
          /\ life' = "failed"
    /\ UNCHANGED <<gpuQuery, weightsPresent, task, loop, cleanups, cleanupErr, cacheCleared>>

\* Lines 59-64: the finally block at shutdown
LifespanShutdown ==
    /\ life = "running"
    /\ loop = "none"
    /\ appHasDetector
    /\ DoCleanup
    /\ life' = "stopped"
    /\ UNCHANGED <<gpuQuery, weightsPresent, appHasDetector, task, loop>>

HttpError(status, detail) == [status |-> status, detail |-> detail, body |-> None]

\* The two except clauses that end both handlers (lines 151-156, 190-195)
HandlerCatch(e) ==
    IF IsValueError(e) THEN HttpError(400, e.text)
    ELSE HttpError(500, "Internal server error")

\* raise HTTPException(status_code=503, ...) inside the try block
NotInitialized == [type |-> "HTTPException", text |-> "Model not initialized"]

\* EmotionResponse(...) built from predict's dict (lines 141-149, 180-188)
EmotionResponse(r) ==
    [emotion |-> r.emotion, valence |-> r.valence, arousal |-> r.arousal,
     emotion_probabilities |-> r.emotion_probabilities,
     face_detected |-> r.face_detected,
     face_bbox |-> IF "face_bbox" \in DOMAIN r THEN r.face_bbox ELSE None,
     message |-> IF "message" \in DOMAIN r THEN Some(r.message) ELSE None]

Done(rec, response) == [rec EXCEPT !.pc = "done", !.response = Some(response)]

\* detect_emotion_from_file up to its await (lines 117-123)
FileRequest(images) ==
    /\ task["file"].pc \in {"idle", "done"}
    /\ Runnable("file")
    /\ \/ Step("file", Done([IdleTask EXCEPT !.req = Some([content_type_ok |-> FALSE, decoded |-> None])],
                            HttpError(400, "File must be an image")))
       \/ \E d \in {None} \cup { Some(i) : i \in images } :
             Step("file", [IdleTask EXCEPT !.pc = "reading",
                                           !.req = Some([content_type_ok |-> TRUE, decoded |-> d])])
    /\ UNCHANGED <<gpuQuery, weightsPresent, detector, appHasDetector, life,
                   cleanups, cleanupErr, cacheCleared>>

\* detect_emotion_from_file from the await to the call of predict (lines 126-139)
FileResume ==
    /\ task["file"].pc = "reading"
    /\ Runnable("file")
    /\ LET me == task["file"] IN
       \/ /\ me.req[1].decoded = None
          /\ Step("file", Done(me, HandlerCatch([type |-> "ValueError", text |-> "Failed to decode image"])))
       \/ /\ me.req[1].decoded # None
          /\ ~appHasDetector
          /\ Step("file", Done(me, HandlerCatch(NotInitialized)))
       \/ /\ me.req[1].decoded # None
          /\ appHasDetector
          /\ Step("file", [me EXCEPT !.pc = "predict", !.image = me.req[1].decoded])
    /\ UNCHANGED <<gpuQuery, weightsPresent, detector, appHasDetector, life,
                   cleanups, cleanupErr, cacheCleared>>

\* detect_emotion_from_base64 up to the call of predict (lines 170-178);
\* decode_base64_image turns every failure into a ValueError (lines 85-103)
B64Request(images) ==
    /\ task["b64"].pc \in {"idle", "done"}
    /\ Runnable("b64")
    /\ \E d \in {None} \cup { Some(i) : i \in images } :
          LET me == [IdleTask EXCEPT !.req = Some([content_type_ok |-> TRUE, decoded |-> d])] IN
          \/ /\ d = None
             /\ Step("b64", Done(me, HandlerCatch([type |-> "ValueError", text |-> "Invalid base64 image"])))
          \/ /\ d # None
             /\ ~appHasDetector
             /\ Step("b64", Done(me, HandlerCatch(NotInitialized)))
          \/ /\ d # None
             /\ appHasDetector
             /\ Step("b64", [me EXCEPT !.pc = "predict", !.image = d])
    /\ UNCHANGED <<gpuQuery, weightsPresent, detector, appHasDetector, life,
                   cleanups, cleanupErr, cacheCleared>>

\* Either handler after predict: the response, or the except clauses
Respond(t) ==
    /\ task[t].pc \in {"returned", "raised"}
    /\ Runnable(t)
    /\ \/ /\ task[t].pc = "returned"
          /\ Step(t, Done(task[t], [status |-> 200, detail |-> "",
                                    body |-> Some(EmotionResponse(task[t].result[1]))]))
       \/ /\ task[t].pc = "raised"
          /\ Step(t, Done(task[t], HandlerCatch(task[t].exc[1])))
    /\ UNCHANGED <<gpuQuery, weightsPresent, detector, appHasDetector, life,
                   cleanups, cleanupErr, cacheCleared>>

(***************************************************************************)
(* Inputs.                                                                 *)
(***************************************************************************)

AllImages == { <<h, w>> : h \in 1..MaxDim, w \in 1..MaxDim }

\* Integer boxes, coordinates from below 0 to beyond the image
Coords == (-1)..(MaxDim + 1)
AllBoxes == { <<x1, y1, x2, y2>> : x1 \in Coords, y1 \in Coords, x2 \in Coords, y2 \in Coords }
ExtraBox == <<0, 0, 1, 1>>

AllFaceLists ==
    {<<>>} \cup { <<b>> : b \in AllBoxes } \cup { <<b, ExtraBox>> : b \in AllBoxes }

FewImages == { <<MaxDim, MaxDim>> }

FewFaceLists ==
    { <<>>, << <<0, 0, 1, 1>> >>, << <<1, 0, 1, 1>> >>, << <<0, 0, -1, -1>> >>,
      << <<-1, -1, MaxDim + 1, MaxDim + 1>>, ExtraBox >> }

\* A logits vector of width k, 1 at the positions of hot and 0 elsewhere
HotVector(k, hot) == [i \in 1..k |-> IF i \in hot THEN 1 ELSE 0]

Widths == {5, 8, 9}

AllLogits ==
    UNION { { HotVector(k, {pq[1], pq[2]}) : pq \in { <<p, q>> \in (1..k) \X (1..k) : q \in {p, k} } } :
            k \in Widths }

ModelOutput(v, val, aro) == [expression |-> v, valence |-> val, arousal |-> aro]

AllOutputs ==
    { ModelOutput(v, s[1], s[2]) : v \in AllLogits, s \in { <<-2, 2>>, <<0, 1>> } }

FewOutputs ==
    { ModelOutput(HotVector(8, {2}), -2, 2), ModelOutput(HotVector(8, {3, 8}), 0, 1),
      ModelOutput(HotVector(5, {5}), 0, 1) }

FewGpuQueries ==
    { [failed |-> TRUE, rows |-> <<>>],
      [failed |-> FALSE, rows |-> << GpuRow(1, [kind |-> "ok", used |-> 0, total |-> 1]) >>] }

(***************************************************************************)
(* Specifications.                                                         *)
(***************************************************************************)

InitWith(queries, callers) ==
    /\ gpuQuery \in queries
    /\ weightsPresent \in BOOLEAN
    /\ detector = None
    /\ appHasDetector = FALSE
    /\ life = "init"
    /\ task = [t \in callers |-> IdleTask]
    /\ loop = "none"
    /\ cleanups = 0
    /\ cleanupErr = "none"
    /\ cacheCleared = FALSE

\* The service: the lifespan and the two handlers on one event loop
Init == InitWith(FewGpuQueries, {"file", "b64"})

Next ==
    \/ LifespanStartup
    \/ LifespanShutdown
    \/ FileRequest(FewImages)
    \/ FileResume
    \/ B64Request(FewImages)
    \/ \E t \in {"file", "b64"} :
          \/ PredictLocalize(t, FewFaceLists)
          \/ PredictNoFace(t)
          \/ PredictClampAndCrop(t)
          \/ PredictPreprocess(t)
          \/ PredictInfer(t, FewOutputs)
          \/ PredictNormalize(t)
          \/ Respond(t)

Spec == Init /\ [][Next]_vars

\* predict on every image and every box the localizer may report
InitCrop == InitWith(FewGpuQueries, {"direct"})

NextCrop ==
    \/ DirectConstruct
    \/ DirectCall(AllImages)
    \/ PredictLocalize("direct", AllFaceLists)
    \/ PredictNoFace("direct")
    \/ PredictClampAndCrop("direct")
    \/ PredictPreprocess("direct")
    \/ PredictInfer("direct", FewOutputs)
    \/ PredictNormalize("direct")
    \/ DirectReturn
    \/ DirectCleanup

SpecCrop == InitCrop /\ [][NextCrop]_vars

\* predict on every output the network may produce
InitInfer == InitWith(FewGpuQueries, {"direct"})

NextInfer ==
    \/ DirectConstruct
    \/ DirectCall(FewImages)
    \/ PredictLocalize("direct", FewFaceLists)
    \/ PredictNoFace("direct")
    \/ PredictClampAndCrop("direct")
    \/ PredictPreprocess("direct")
    \/ PredictInfer("direct", AllOutputs)
    \/ PredictNormalize("direct")
    \/ DirectReturn
    \/ DirectCleanup

SpecInfer == InitInfer /\ [][NextInfer]_vars

\* Construction on every answer of the device query
InitDevice == InitWith(AllGpuQueries, {"direct"})

NextDevice ==
    \/ DirectConstruct
    \/ DirectCleanup

SpecDevice == InitDevice /\ [][NextDevice]_vars

(***************************************************************************)
(* Properties.                                                             *)
(***************************************************************************)

Callers == DOMAIN task

Returned(t) == task[t].pc = "returned"
ReturnedPrediction(t) == Returned(t) /\ task[t].result[1].face_detected

\* The fields both failure results leave absent
NoNumericFields(r) ==
    /\ r.emotion = None
    /\ r.emotion_class = None
    /\ r.valence = None
    /\ r.arousal = None
    /\ r.emotion_probabilities = None
    /\ "face_bbox" \notin DOMAIN r

\* C1: every Prediction predict returns carries a face_bbox [x1,y1,x2,y2] with
\* 0 <= x1 < x2 <= W and 0 <= y1 < y2 <= H, whatever integer box the localizer
\* reported as element 0.
C1_BBoxInsideImage ==
    \A t \in Callers :
        ReturnedPrediction(t) =>
            LET b == task[t].result[1].face_bbox[1]
                W == task[t].image[1][2]
                H == task[t].image[1][1]
            IN  /\ 0 <= b[1] /\ b[1] < b[3] /\ b[3] <= W
                /\ 0 <= b[2] /\ b[2] < b[4] /\ b[4] <= H

\* C2: once the localizer has returned an empty list, predict does not raise
\* and what it returns is the NoFace result: face_detected false, the message
\* "No face detected in image", every numeric field None and no face_bbox.
C2_NoFaceOnEmptyList ==
    \A t \in Callers :
        task[t].detected_faces = Some(<<>>) =>
            /\ task[t].pc \in {"localized", "returned"}
            /\ Returned(t) =>
                  LET r == task[t].result[1] IN
                  /\ r.face_detected = FALSE
                  /\ r.message = "No face detected in image"
                  /\ NoNumericFields(r)

C2_Witness ==
    \E t \in Callers : task[t].detected_faces = Some(<<>>) /\ Returned(t)

\* The clamped box of caller t has zero width or zero height
ZeroAreaBox(t) ==
    /\ task[t].bbox # None
    /\ \/ task[t].bbox[1][1] = task[t].bbox[1][3]
       \/ task[t].bbox[1][2] = task[t].bbox[1][4]

\* C3: when element 0, clamped, has x1 = x2 or y1 = y2, predict returns the
\* InvalidCrop result (message "Invalid face crop", no numeric field) and goes
\* no further: it returns no Prediction.
C3_InvalidCropOnZeroArea ==
    \A t \in Callers :
        ZeroAreaBox(t) =>
            /\ Returned(t)
            /\ LET r == task[t].result[1] IN
               /\ r.face_detected = FALSE
               /\ r.message = "Invalid face crop"
               /\ NoNumericFields(r)

\* a box of zero height and positive width has been returned as InvalidCrop
C3_Witness ==
    \E t \in Callers :
        /\ ZeroAreaBox(t)
        /\ Returned(t)
        /\ task[t].bbox[1][2] = task[t].bbox[1][4]
        /\ task[t].bbox[1][1] < task[t].bbox[1][3]

QueryFails(q) == q.failed \/ \E i \in DOMAIN q.rows : q.rows[i].kind = "bad"
ValidRows(q) == { i \in DOMAIN q.rows : q.rows[i].kind = "ok" }
FreeOf(q, i) == q.rows[i].total - q.rows[i].used

RefDevice(q) ==
    IF QueryFails(q) \/ ValidRows(q) = {} THEN [type |-> "cpu", index |-> -1]
    ELSE LET best == CHOOSE i \in ValidRows(q) :
                        /\ \A j \in ValidRows(q) : FreeOf(q, j) <= FreeOf(q, i)
                        /\ \A j \in ValidRows(q) : j < i => FreeOf(q, j) < FreeOf(q, i)
         IN  [type |-> "cuda", index |-> q.rows[best].index]

\* C5: the device of a constructed detector is the CPU when the query fails or
\* yields no rows, and otherwise the device with maximal free memory, the first
\* in enumeration order among those with equal maximal free memory.
C5_DeviceIsReference ==
    detector # None => Det.device = RefDevice(gpuQuery)

\* two devices tie for the most free memory and a third, listed last, has less
C5_Witness ==
    /\ detector # None
    /\ Det.device.type = "cuda"
    /\ \E i, j \in ValidRows(gpuQuery) :
          /\ i < j
          /\ FreeOf(gpuQuery, i) = FreeOf(gpuQuery, j)
          /\ \A m \in ValidRows(gpuQuery) : FreeOf(gpuQuery, m) <= FreeOf(gpuQuery, i)
          /\ Det.device.index = gpuQuery.rows[i].index
          /\ \A m \in ValidRows(gpuQuery) : m < i => FreeOf(gpuQuery, m) < FreeOf(gpuQuery, i)

Handlers == Callers \cap {"file", "b64"}
Answered(t) == task[t].pc = "done" /\ task[t].response # None

\* C6: a detection request handled while app.state has no detector is answered
\* with 503, whatever the request carries.  Stated here for the requests that
\* carry a well-formed image of an image content type, the case in which no
\* other answer competes with the 503.
C6_UninitializedIs503 ==
    \A t \in Handlers :
        (/\ Answered(t)
         /\ ~appHasDetector
         /\ task[t].req[1].content_type_ok
         /\ task[t].req[1].decoded # None) => task[t].response[1].status = 503

\* C7: a failure raised inside predict, of any exception type, reaches the
\* caller as 500 with the fixed message: never as a client error, never with
\* the exception's text.
C7_PredictFailureIsGeneric500 ==
    \A t \in Handlers :
        (Answered(t) /\ task[t].exc # None) =>
            /\ task[t].response[1].status = 500
            /\ task[t].response[1].detail = "Internal server error"
            /\ task[t].response[1].detail # task[t].exc[1].text

\* C8: a cleanup call made after the first raises nothing and leaves the
\* detector as the first left it, model and face detector released.
C8_CleanupIdempotent ==
    [][(cleanups >= 1 /\ cleanups' = cleanups + 1) =>
          /\ cleanupErr' = "none"
          /\ detector' = detector
          /\ cacheCleared' = cacheCleared
          /\ Det.attrs \cap {"model", "face_detector"} = {}]_vars

C8_Witness == cleanups >= 2 /\ cleanupErr = "none" /\ Det.attrs = {}

\* A predict call of caller t is under way
InFlight(t) == task[t].pc \in {"predict", "localized", "cropped", "preprocessed", "inferred"}

\* C9: cleanup never runs while a predict call is under way on the detector,
\* and no call starts a forward pass once cleanup has released the model.
C9_DrainBeforeRelease ==
    [][/\ cleanups' > cleanups => \A t \in Callers : ~InFlight(t)
       /\ \A t \in Callers :
             task'[t].forwards > task[t].forwards => "model" \in Det.attrs]_vars

\* the shutdown ran after one request was answered with a result and while
\* another was waiting for its upload, which then failed on the released
\* detector before any forward pass
C9_Witness ==
    /\ cleanups = 1
    /\ \E t \in Callers : Answered(t) /\ task[t].response[1].status = 200
    /\ \E t \in Callers :
          /\ task[t].exc = Some([type |-> "AttributeError", text |-> "face_detector"])
          /\ task[t].forwards = 0

StageOrder == <<"LOCALIZE", "CLAMP_AND_CROP", "PREPROCESS", "INFER", "NORMALIZE">>

IsPrefix(s, full) == Len(s) <= Len(full) /\ s = SubSeq(full, 1, Len(s))

\* C10: the stages of a call run in the order LOCALIZE, CLAMP_AND_CROP,
\* PREPROCESS, INFER, NORMALIZE; a call that returns returns exactly one of
\* NoFace, InvalidCrop and Prediction, each at the end of its own branch; the
\* forward pass runs at most once, and only after the localizer returned a box
\* and its clamped crop is not empty; the no-face and invalid-crop branches
\* never end in an exception.
C10_StageOrder ==
    \A t \in Callers :
        LET me == task[t]
            noFace == me.detected_faces = Some(<<>>)
            badCrop == me.crop # None /\ (me.crop[1][1] = 0 \/ me.crop[1][2] = 0)
        IN  /\ IsPrefix(me.stages, StageOrder)
            /\ me.forwards <= 1
            /\ me.forwards = 1 =>
                  /\ me.detected_faces # None /\ Len(me.detected_faces[1]) >= 1
                  /\ me.crop # None /\ me.crop[1][1] > 0 /\ me.crop[1][2] > 0
                  /\ Len(me.stages) >= 4
            /\ Len(me.stages) >= 4 => ~noFace /\ ~badCrop
            /\ me.pc = "returned" =>
                  \/ /\ noFace /\ me.stages = SubSeq(StageOrder, 1, 1)
                     /\ me.result[1].message = "No face detected in image"
                     /\ ~me.result[1].face_detected
                  \/ /\ badCrop /\ me.stages = SubSeq(StageOrder, 1, 2)
                     /\ me.result[1].message = "Invalid face crop"
                     /\ ~me.result[1].face_detected
                  \/ /\ ~noFace /\ ~badCrop /\ me.stages = StageOrder
                     /\ me.forwards = 1
                     /\ me.result[1].face_detected
            /\ me.pc = "raised" => ~noFace /\ ~badCrop

\* calls of all three branches have returned: the witness is the Prediction one
C10_Witness ==
    \E t \in Callers :
        /\ ReturnedPrediction(t)
        /\ task[t].stages = StageOrder
        /\ task[t].forwards = 1

====
